---- MODULE Spec2Model ----
(***************************************************************************)
(* Model of launcher.py: launching an application, correlating the process *)
(* with the window the window manager creates for it (get_new_wid), and    *)
(* renaming / relocating that window through wmctrl.                       *)
(*                                                                         *)
(* Python strings are sequences of one-character strings, so that          *)
(* str.split(), the `in` substring test, str(int) and the f-strings are    *)
(* computed the way the code computes them.                                *)
(***************************************************************************)
EXTENDS Integers, Sequences, FiniteSets, TLC

\* ------------------------------------------------------------------ bounds
\* Stand-in for the literal 1000 of `while not found and c < 1000`.
IterBound == 2
\* Largest number of windows the window manager ever lists.
MaxWindows == 3
\* Largest number of launches a script makes one after the other.
MaxLaunches == 2

\* --------------------------------------------------------- program constants
PID_INDEX == 2
TITLE_INDEX == 4

\* ------------------------------------------------------------------ strings
S_Terminal == <<"T","e","r","m","i","n","a","l">>
S_Mozilla == <<"M","o","z","i","l","l","a">>
S_Firefox == <<"F","i","r","e","f","o","x">>
S_MozillaFirefox == S_Mozilla \o <<" ">> \o S_Firefox
S_TerminalSession == S_Terminal \o <<"-","s","e","s","s","i","o","n">>
S_WorkShell == <<"w","o","r","k","-","s","h","e","l","l">>
S_MyTerminal == <<"m","y"," ">> \o S_Terminal
S_Blank == <<" ">>
S_nb == <<"n","b">>
S_JL == <<"-","J","L">>
S_JLFirefox == <<"-","J","L","-">> \o S_Firefox
S_Delay == <<"0",".","2">>
S_host == <<"h","o","s","t">>
DigitChars == <<"0","1","2","3","4","5","6","7","8","9">>

\* The local `wid` of get_new_wid before any row was scanned (handles are >= 1).
Unbound == 0

\* str(n) for a non-negative int: its decimal digits.
RECURSIVE str(_)
str(n) ==
  IF n < 10 THEN <<DigitChars[n + 1]>>
  ELSE str(n \div 10) \o <<DigitChars[(n % 10) + 1]>>

\* `pattern in field` on Python strings: substring containment.
StrIn(pattern, field) ==
  \E i \in 0..(Len(field) - Len(pattern)) :
     SubSeq(field, i + 1, i + Len(pattern)) = pattern

\* s.split(): the maximal runs of non-whitespace characters of s.
RECURSIVE splitFrom(_, _)
splitFrom(s, cur) ==
  IF s = <<>> THEN (IF cur = <<>> THEN <<>> ELSE <<cur>>)
  ELSE IF Head(s) = " "
       THEN (IF cur = <<>> THEN splitFrom(Tail(s), <<>>)
             ELSE <<cur>> \o splitFrom(Tail(s), <<>>))
       ELSE splitFrom(Tail(s), Append(cur, Head(s)))
split(s) == splitFrom(s, <<>>)

\* --------------------------------------------------------------- input sets
\* `workspace` arguments of the profiles.
Workspaces == {1, 4}
\* Process ids Popen may return; the digits of 12 are a substring of those of 123.
Pids == {12, 123}
\* The windows applications map: (owner pid, title).
WinKinds == {[pid |-> 12, title |-> S_Terminal],
             [pid |-> 123, title |-> S_MozillaFirefox],
             [pid |-> 7, title |-> S_MyTerminal]}
\* new_win_name arguments of terminal().
TermNames == {S_TerminalSession, S_WorkShell, S_MyTerminal, S_Blank}
\* win_names_pref arguments of jupyter_lab().
Prefs == {S_nb, S_Terminal}
\* `workspace` argument of jupyter_lab().
JupyterWorkspaces == {2}

VARIABLES
  windows,      \* the window manager's listing, in wmctrl's order: records [wid, pid, title]
  pc,           \* position of the (single-threaded) program
  caller,       \* the profile function called by the user
  stage,        \* jupyter_lab: 1 = terminal() call, 2 = firefox() call; else 0
  win_names_pref, \* jupyter_lab: parameter `win_names_pref`
  workspace,    \* parameter `workspace`
  new_name,     \* parameter `new_name` of launch_and_move: <<>> for None, else <<title>>
  new_win_name, \* parameter `new_win_name` of terminal() / firefox()
  get_wid,      \* parameter `get_wid`: the correlation strategy (a closure in the code)
  old,          \* launch_and_get_wid: local `old`
  pid,          \* proc.pid
  old_wins, pattern, f_index, repeat,   \* parameters of the running get_new_wid frame
  found, c, wid, wins,                  \* locals of the running get_new_wid frame
  slept,        \* number of time.sleep(0.05) calls made by the last pass of the while loop
  outer,        \* locals of the suspended first get_new_wid frame while the recursive call runs
  frame,        \* 0: no get_new_wid frame yet, 1: first call, 2: recursive call
  ret,          \* launch_and_move: local `wid`, the handle get_wid returned (Unbound before)
  err,          \* exception that ended the run ("none" when there is none)
  run2,         \* a second run of the program on the same desktop: its position and locals
  log           \* history: the calls made to wmctrl (get_wids, get_windows, rename_window,
                \* move_win_to_ws), to Popen and to time.sleep(0.2), and the handles
                \* get_wid returned ("return", ok = found), in order

vars == <<windows, pc, caller, stage, win_names_pref, workspace, new_name, new_win_name, get_wid, old, pid,
          old_wins, pattern, f_index, repeat, found, c, wid, wins, slept, outer, frame,
          ret, err, log, run2>>

searchVars == <<old_wins, pattern, f_index, repeat, found, c, wid, wins, slept, outer, frame>>

\* ------------------------------------------------------------ window manager
\* One line of `wmctrl -l -p`, split on whitespace:
\* window id, desktop, pid, client machine, title words.
Fields(win) == <<win.wid, <<"0">>, str(win.pid), S_host>> \o split(win.title)

\* get_wids(): the set of first columns of the listing.
WidsOf(listing) == {Fields(listing[i])[1] : i \in 1..Len(listing)}

Event(op, w, arg, ok) == [op |-> op, wid |-> w, arg |-> arg, ok |-> ok]

\* Variant of the for loop without the test `pattern in field`: the first row
\* outside `olds` is taken.
RECURSIVE scanAnyNew(_, _, _, _, _, _)
scanAnyNew(rows, olds, pat, idx, wid0, sl) ==
  IF rows = <<>> THEN [found |-> FALSE, wid |-> wid0, sleeps |-> sl]
  ELSE LET w == Fields(Head(rows))[1]
       IN IF w \in olds THEN scanAnyNew(Tail(rows), olds, pat, idx, w, sl)
          ELSE [found |-> TRUE, wid |-> w, sleeps |-> sl]

\* Variant of the for loop without the `break`: the rows after a match are
\* still read, so `wid` ends as the last row's id.
RECURSIVE scanNoBreak(_, _, _, _, _, _)
scanNoBreak(rows, olds, pat, idx, wid0, sl) ==
  IF rows = <<>> THEN [found |-> FALSE, wid |-> wid0, sleeps |-> sl]
  ELSE LET f == Fields(Head(rows))
           w == f[1]
           field == f[idx + 1]
       IN IF w \in olds THEN scanNoBreak(Tail(rows), olds, pat, idx, w, sl)
          ELSE IF StrIn(pat, field)
               THEN [scanNoBreak(Tail(rows), olds, pat, idx, w, sl) EXCEPT !.found = TRUE]
               ELSE scanNoBreak(Tail(rows), olds, pat, idx, w, sl + 1)

\* The for loop of get_new_wid over one listing: `wid0` is the value `wid` has
\* on entry, `sl` counts the time.sleep(0.05) calls made so far in the loop.
RECURSIVE scan(_, _, _, _, _, _)
scan(rows, olds, pat, idx, wid0, sl) ==
  IF rows = <<>> THEN [found |-> FALSE, wid |-> wid0, sleeps |-> sl]
  ELSE LET f == Fields(Head(rows))
           w == f[1]
           field == f[idx + 1]
       IN IF w \in olds THEN scan(Tail(rows), olds, pat, idx, w, sl)
          ELSE IF StrIn(pat, field) THEN [found |-> TRUE, wid |-> w, sleeps |-> sl]
          ELSE scan(Tail(rows), olds, pat, idx, w, sl + 1)

\* get_wid_by_title / get_wid_by_pid: the arguments they pass to get_new_wid.
get_wid_by_title(pat) == [pattern |-> pat, f_index |-> TITLE_INDEX, repeat |-> FALSE]
get_wid_by_pid(p, double) == [pattern |-> str(p), f_index |-> PID_INDEX, repeat |-> double]

\* The closures the profiles pass as get_wid(old, pid).
Strategy(by, pat, double) == [by |-> by, pattern |-> pat, double |-> double]
ByPid(double) == Strategy("pid", <<>>, double)
ByTitle(pat) == Strategy("title", pat, FALSE)
CallGetWid(g, p) ==
  IF g.by = "pid" THEN get_wid_by_pid(p, g.double) ELSE get_wid_by_title(g.pattern)

\* Variant of the check that looks for the marker in the whole title.
TerminalCheckWholeName(name) ==
  IF split(name) = <<>> THEN "IndexError"
  ELSE IF StrIn(S_Terminal, name) THEN "ValueError"
  ELSE "ok"

\* terminal(): the check of new_win_name made before launch_and_move.
TerminalCheck(name) ==
  IF split(name) = <<>> THEN "IndexError"
  ELSE IF StrIn(S_Terminal, split(name)[1]) THEN "ValueError"
  ELSE "ok"

\* The wmctrl commands of rename_window and move_win_to_ws.
RenameCmd(w, name) == Event("rename_window", w, name, TRUE)
\* Variant of the move command that converts the number to a 0-based index.
MoveCmdMinusOne(w, ws) == Event("move_win_to_ws", w, str(ws - 1), TRUE)
MoveCmd(w, ws) == Event("move_win_to_ws", w, str(ws), TRUE)

NoFrame == [old_wins |-> {}, found |-> FALSE, c |-> 0, wid |-> Unbound, wins |-> <<>>]

\* The second run before it is started: launch_and_move with the title strategy
\* of terminal().  `overlap` records whether the first run was still in
\* progress when the second took its baseline.
NoRun == [pc |-> "idle", new_name |-> <<>>, old |-> {}, pid |-> 0, found |-> FALSE, c |-> 0,
          wid |-> Unbound, ret |-> Unbound, err |-> "none", overlap |-> FALSE]

\* Listings the desktop may show before the program starts.
InitListings ==
  {<<>>} \cup {<<[wid |-> 1, pid |-> k.pid, title |-> k.title]>> : k \in WinKinds}

Init ==
  /\ windows \in InitListings
  /\ pc = "idle"
  /\ caller = "none"
  /\ stage = 0
  /\ win_names_pref = <<>>
  /\ workspace = 1
  /\ new_name = <<>>
  /\ new_win_name = <<>>
  /\ get_wid = ByPid(FALSE)
  /\ old = {}
  /\ pid = 0
  /\ old_wins = {}
  /\ pattern = <<>>
  /\ f_index = PID_INDEX
  /\ repeat = FALSE
  /\ found = FALSE
  /\ c = 0
  /\ wid = Unbound
  /\ wins = <<>>
  /\ slept = 0
  /\ outer = NoFrame
  /\ frame = 0
  /\ ret = Unbound
  /\ err = "none"
  /\ log = <<>>
  /\ run2 = NoRun

\* -------------------------------------------------------------- environment
\* An application maps a new window.  wmctrl prints the window manager's
\* client list, which is kept in mapping order, so the new window is listed
\* last.  Windows appear while a listing is still going to be read: while a search of a
\* launch is running (that is, at any time after the baseline was taken and
\* before the last listing is read), and during jupyter_lab's delay.
WmCreateWindow ==
  /\ \/ pc = "jupyter_lab_sleep"
     \/ pc = "get_new_wid" /\ (~found \/ repeat)
  /\ Len(windows) < MaxWindows
  /\ \E kind \in WinKinds :
       windows' = Append(windows, [wid |-> Len(windows) + 1, pid |-> kind.pid,
                                   title |-> kind.title])
  /\ UNCHANGED <<pc, caller, stage, win_names_pref, workspace, new_name, new_win_name, get_wid, old, pid,
                 old_wins, pattern, f_index, repeat, found, c, wid, wins, slept, outer,
                 frame, ret, err, log>>
  /\ UNCHANGED run2

\* ------------------------------------------------------------------ profiles
\* launch_and_move(prog_array, workspace, get_wid, new_name) is entered.
EnterLaunchAndMove(ws, g, name) ==
  /\ workspace' = ws
  /\ get_wid' = g
  /\ new_name' = name
  /\ pc' = "launch_and_get_wid"

\* Body of terminal(workspace, new_win_name=name).
TerminalCall(ws, name) ==
  /\ new_win_name' = name
  /\ LET chk == TerminalCheck(name)
     IN IF chk = "ok"
        THEN /\ EnterLaunchAndMove(ws, ByTitle(S_Terminal), <<name>>)
             /\ UNCHANGED err
        ELSE /\ pc' = "error"
             /\ err' = chk
             /\ workspace' = ws
             /\ UNCHANGED <<get_wid, new_name>>

\* Variant of firefox() that does not forward new_win_name to launch_and_move.
FirefoxCallNoName(ws, name) ==
  /\ new_win_name' = name
  /\ log' = Append(log, Event("get_wids", Unbound, <<>>, TRUE))
  /\ EnterLaunchAndMove(ws, ByTitle(S_Mozilla), <<>>)

\* Body of firefox(workspace, url, new_win_name=name); its first statement is get_wids().
FirefoxCall(ws, name) ==
  /\ new_win_name' = name
  /\ log' = Append(log, Event("get_wids", Unbound, <<>>, TRUE))
  /\ EnterLaunchAndMove(ws, ByTitle(S_Mozilla), <<name>>)

terminal ==
  /\ pc = "idle"
  /\ \E ws \in Workspaces, name \in TermNames : TerminalCall(ws, name)
  /\ caller' = "terminal"
  /\ UNCHANGED <<windows, stage, win_names_pref, old, pid, ret, log>>
  /\ UNCHANGED searchVars
  /\ UNCHANGED run2

firefox ==
  /\ pc = "idle"
  /\ \E ws \in Workspaces : FirefoxCall(ws, S_Firefox)
  /\ caller' = "firefox"
  /\ UNCHANGED <<windows, stage, win_names_pref, old, pid, ret, err>>
  /\ UNCHANGED searchVars
  /\ UNCHANGED run2

texstudio ==
  /\ pc = "idle"
  /\ \E ws \in Workspaces : EnterLaunchAndMove(ws, ByPid(TRUE), <<>>)
  /\ caller' = "texstudio"
  /\ UNCHANGED <<windows, stage, win_names_pref, new_win_name, old, pid, ret, err, log>>
  /\ UNCHANGED searchVars
  /\ UNCHANGED run2

\* launch_and_move called with its default get_wid and no new_name.
launch_and_move ==
  /\ pc = "idle"
  /\ \E ws \in Workspaces : EnterLaunchAndMove(ws, ByPid(FALSE), <<>>)
  /\ caller' = "launch_and_move"
  /\ UNCHANGED <<windows, stage, win_names_pref, new_win_name, old, pid, ret, err, log>>
  /\ UNCHANGED searchVars
  /\ UNCHANGED run2

\* jupyter_lab(workspace, directory, win_names_pref, port) up to its terminal() call.
jupyter_lab ==
  /\ pc = "idle"
  /\ \E ws \in JupyterWorkspaces, pref \in Prefs :
       /\ win_names_pref' = pref
       /\ TerminalCall(ws, pref \o S_JL)
  /\ caller' = "jupyter_lab"
  /\ stage' = 1
  /\ UNCHANGED <<windows, old, pid, ret, log>>
  /\ UNCHANGED searchVars
  /\ UNCHANGED run2

\* jupyter_lab: time.sleep(0.2) after terminal() has returned.
jupyter_lab_sleep ==
  /\ pc = "jupyter_lab_sleep"
  /\ log' = Append(log, Event("sleep", Unbound, S_Delay, TRUE))
  /\ pc' = "jupyter_lab_firefox"
  /\ UNCHANGED <<windows, caller, stage, win_names_pref, workspace, new_name, new_win_name, get_wid, old,
                 pid, ret, err>>
  /\ UNCHANGED searchVars
  /\ UNCHANGED run2

\* jupyter_lab: the firefox() call.
jupyter_lab_firefox ==
  /\ pc = "jupyter_lab_firefox"
  /\ FirefoxCall(workspace, win_names_pref \o S_JLFirefox)
  /\ stage' = 2
  /\ UNCHANGED <<windows, caller, win_names_pref, old, pid, ret, err>>
  /\ UNCHANGED searchVars
  /\ UNCHANGED run2

\* -------------------------------------------------------------- orchestrator
\* Variant of launch_and_get_wid that starts from an empty baseline.
launch_and_get_widNoBaseline ==
  /\ pc = "launch_and_get_wid"
  /\ old' = {}
  /\ log' = Append(log, Event("get_wids", Unbound, <<>>, TRUE))
  /\ ret' = Unbound
  /\ pc' = "Popen"
  /\ UNCHANGED <<windows, caller, stage, win_names_pref, workspace, new_name, new_win_name, get_wid, pid, err>>
  /\ UNCHANGED searchVars
  /\ UNCHANGED run2

\* launch_and_get_wid: old = get_wids()
launch_and_get_wid ==
  /\ pc = "launch_and_get_wid"
  /\ old' = WidsOf(windows)
  /\ log' = Append(log, Event("get_wids", Unbound, <<>>, TRUE))
  /\ ret' = Unbound
  /\ pc' = "Popen"
  /\ UNCHANGED <<windows, caller, stage, win_names_pref, workspace, new_name, new_win_name, get_wid, pid, err>>
  /\ UNCHANGED searchVars
  /\ UNCHANGED run2

\* get_wid(old, proc.pid): the first get_new_wid frame is entered.
EnterGetNewWid(p) ==
  LET a == CallGetWid(get_wid, p)
  IN /\ old_wins' = old
     /\ pattern' = a.pattern
     /\ f_index' = a.f_index
     /\ repeat' = a.repeat
     /\ found' = FALSE
     /\ c' = 0
     /\ wid' = Unbound
     /\ wins' = <<>>
     /\ slept' = 0
     /\ outer' = NoFrame
     /\ frame' = 1
     /\ pc' = "get_new_wid"

\* Variant of the Popen step in which a failure to start the program is
\* swallowed and the search is entered all the same.
PopenContinues ==
  /\ pc = "Popen"
  /\ \/ \E p \in Pids :
          /\ pid' = p
          /\ log' = Append(log, Event("Popen", Unbound, str(p), TRUE))
          /\ EnterGetNewWid(p)
     \/ /\ log' = Append(log, Event("Popen", Unbound, <<>>, FALSE))
        /\ UNCHANGED pid
        /\ EnterGetNewWid(pid)
  /\ UNCHANGED <<windows, caller, stage, win_names_pref, workspace, new_name, new_win_name,
                 get_wid, old, ret, err>>
  /\ UNCHANGED run2

\* launch_and_get_wid: proc = subprocess.Popen(prog_array), then get_wid(old, proc.pid)
\* enters get_new_wid; Popen raises OSError when the program cannot be started.
Popen ==
  /\ pc = "Popen"
  /\ \/ \E p \in Pids :
          /\ pid' = p
          /\ log' = Append(log, Event("Popen", Unbound, str(p), TRUE))
          /\ EnterGetNewWid(p)
          /\ UNCHANGED err
     \/ /\ log' = Append(log, Event("Popen", Unbound, <<>>, FALSE))
        /\ pc' = "error"
        /\ err' = "OSError"
        /\ UNCHANGED pid
        /\ UNCHANGED searchVars
  /\ UNCHANGED <<windows, caller, stage, win_names_pref, workspace, new_name, new_win_name,
                 get_wid, old, ret>>
  /\ UNCHANGED run2

\* ------------------------------------------------------- correlation engine
\* Variant of the loop iteration whose condition reads `c <= 1000`.
get_new_wid_pollOnceMore ==
  /\ pc = "get_new_wid"
  /\ ~found /\ c <= IterBound
  /\ c' = c + 1
  /\ wins' = windows
  /\ LET r == scan(windows, old_wins, pattern, f_index, wid, 0)
     IN /\ found' = r.found
        /\ wid' = r.wid
        /\ slept' = r.sleeps
        /\ log' = Append(log, Event("get_windows", Unbound, <<>>, TRUE))
  /\ UNCHANGED <<windows, pc, caller, stage, win_names_pref, workspace, new_name, new_win_name, get_wid,
                 old, pid, old_wins, pattern, f_index, repeat, outer, frame, ret, err>>
  /\ UNCHANGED run2

\* One iteration of the while loop: c += 1, wins = get_windows(), the for loop.
get_new_wid_poll ==
  /\ pc = "get_new_wid"
  /\ ~found /\ c < IterBound
  /\ c' = c + 1
  /\ wins' = windows
  /\ LET r == scan(windows, old_wins, pattern, f_index, wid, 0)
     IN /\ found' = r.found
        /\ wid' = r.wid
        /\ slept' = r.sleeps
        /\ log' = Append(log, Event("get_windows", Unbound, <<>>, TRUE))
  /\ UNCHANGED <<windows, pc, caller, stage, win_names_pref, workspace, new_name, new_win_name, get_wid,
                 old, pid, old_wins, pattern, f_index, repeat, outer, frame, ret, err>>
  /\ UNCHANGED run2

\* Variant of the end of the loop that recurses with the handles of the
\* listing it scanned last as the new baseline, without a fresh get_wids().
get_new_wid_returnSameSnapshot ==
  /\ pc = "get_new_wid"
  /\ found \/ c >= IterBound
  /\ IF repeat
     THEN /\ outer' = [old_wins |-> old_wins, found |-> found, c |-> c, wid |-> wid,
                       wins |-> wins]
          /\ old_wins' = WidsOf(wins)
          /\ log' = Append(log, Event("get_wids", Unbound, <<>>, TRUE))
          /\ repeat' = FALSE
          /\ found' = FALSE
          /\ c' = 0
          /\ wid' = Unbound
          /\ wins' = <<>>
          /\ slept' = 0
          /\ frame' = 2
          /\ UNCHANGED <<pc, ret, err>>
     ELSE IF wid = Unbound
     THEN /\ pc' = "error"
          /\ err' = "UnboundLocalError"
          /\ UNCHANGED <<ret, log>>
          /\ UNCHANGED <<old_wins, repeat, found, c, wid, wins, slept, outer, frame>>
     ELSE /\ ret' = wid
          /\ log' = Append(log, Event("return", wid, <<>>, found))
          /\ pc' = IF new_name # <<>> THEN "rename_window" ELSE "move_win_to_ws"
          /\ UNCHANGED err
          /\ UNCHANGED <<old_wins, repeat, found, c, wid, wins, slept, outer, frame>>
  /\ UNCHANGED <<windows, caller, stage, win_names_pref, workspace, new_name, new_win_name, get_wid, old,
                 pid, pattern, f_index>>
  /\ UNCHANGED run2

\* The while loop has ended: recurse when `repeat`, else `return wid`.
get_new_wid_return ==
  /\ pc = "get_new_wid"
  /\ found \/ c >= IterBound
  /\ IF repeat
     THEN /\ outer' = [old_wins |-> old_wins, found |-> found, c |-> c, wid |-> wid,
                       wins |-> wins]
          /\ old_wins' = WidsOf(windows)
          /\ log' = Append(log, Event("get_wids", Unbound, <<>>, TRUE))
          /\ repeat' = FALSE
          /\ found' = FALSE
          /\ c' = 0
          /\ wid' = Unbound
          /\ wins' = <<>>
          /\ slept' = 0
          /\ frame' = 2
          /\ UNCHANGED <<pc, ret, err>>
     ELSE IF wid = Unbound
     THEN /\ pc' = "error"
          /\ err' = "UnboundLocalError"
          /\ UNCHANGED <<ret, log>>
          /\ UNCHANGED <<old_wins, repeat, found, c, wid, wins, slept, outer, frame>>
     ELSE /\ ret' = wid
          /\ log' = Append(log, Event("return", wid, <<>>, found))
          /\ pc' = IF new_name # <<>> THEN "rename_window" ELSE "move_win_to_ws"
          /\ UNCHANGED err
          /\ UNCHANGED <<old_wins, repeat, found, c, wid, wins, slept, outer, frame>>
  /\ UNCHANGED <<windows, caller, stage, win_names_pref, workspace, new_name, new_win_name, get_wid, old,
                 pid, pattern, f_index>>
  /\ UNCHANGED run2

\* ------------------------------------------------------------------ mutator
\* wmctrl -i -r wid -T new_name: the window manager retitles the window.
Retitle(listing, w, name) ==
  [i \in 1..Len(listing) |->
     IF listing[i].wid = w THEN [listing[i] EXCEPT !.title = name] ELSE listing[i]]

\* Variant of launch_and_move in which the move is the `else` branch of the
\* rename: a renamed window is not moved.
rename_windowInsteadOfMove ==
  /\ pc = "rename_window"
  /\ log' = Append(log, RenameCmd(ret, new_name[1]))
  /\ windows' = Retitle(windows, ret, new_name[1])
  /\ pc' = IF caller = "jupyter_lab" /\ stage = 1 THEN "jupyter_lab_sleep" ELSE "done"
  /\ UNCHANGED <<caller, stage, win_names_pref, workspace, new_name, new_win_name, get_wid, old, pid, ret, err>>
  /\ UNCHANGED searchVars
  /\ UNCHANGED run2

rename_window ==
  /\ pc = "rename_window"
  /\ log' = Append(log, RenameCmd(ret, new_name[1]))
  /\ windows' = Retitle(windows, ret, new_name[1])
  /\ pc' = "move_win_to_ws"
  /\ UNCHANGED <<caller, stage, win_names_pref, workspace, new_name, new_win_name, get_wid, old, pid, ret, err>>
  /\ UNCHANGED searchVars
  /\ UNCHANGED run2

move_win_to_ws ==
  /\ pc = "move_win_to_ws"
  /\ log' = Append(log, MoveCmd(ret, workspace))
  /\ pc' = IF caller = "jupyter_lab" /\ stage = 1 THEN "jupyter_lab_sleep" ELSE "done"
  /\ UNCHANGED <<windows, caller, stage, win_names_pref, workspace, new_name, new_win_name, get_wid, old,
                 pid, ret, err>>
  /\ UNCHANGED searchVars
  /\ UNCHANGED run2

Next ==
  \/ terminal
  \/ firefox
  \/ texstudio
  \/ launch_and_move
  \/ jupyter_lab
  \/ jupyter_lab_sleep
  \/ jupyter_lab_firefox
  \/ launch_and_get_wid
  \/ Popen
  \/ get_new_wid_poll
  \/ get_new_wid_return
  \/ rename_window
  \/ move_win_to_ws
  \/ WmCreateWindow

Spec == Init /\ [][Next]_vars

\* ------------------------------------------------------ sequential launches
\* Number of launches started so far: each one spawns once.
Launches == Cardinality({i \in 1..Len(log) : log[i].op = "Popen"})

\* `workspace` argument of the script's launches.
SeqWorkspaces == {1}
\* Process id Popen returns to the script's launches; the title strategy does
\* not read it.
SeqPids == {12}
\* Window titles a script passes as new_name: none, or one without the pattern.
SeqNames == {<<>>, <<S_WorkShell>>}

\* A script calls launch_and_move with the title strategy of terminal(), with
\* or without new_name; the next call is made when the previous one returned.
launch_by_title ==
  /\ pc \in {"idle", "done"}
  /\ Launches < MaxLaunches
  /\ \E ws \in SeqWorkspaces, name \in SeqNames :
       EnterLaunchAndMove(ws, ByTitle(S_Terminal), name)
  /\ caller' = "launch_and_move"
  /\ UNCHANGED <<windows, stage, win_names_pref, new_win_name, old, pid, ret, err, log>>
  /\ UNCHANGED searchVars
  /\ UNCHANGED run2

\* The Popen step of launch_and_get_wid for the script's launches.
PopenSeq ==
  /\ pc = "Popen"
  /\ \/ \E p \in SeqPids :
          /\ pid' = p
          /\ log' = Append(log, Event("Popen", Unbound, str(p), TRUE))
          /\ EnterGetNewWid(p)
          /\ UNCHANGED err
     \/ /\ log' = Append(log, Event("Popen", Unbound, <<>>, FALSE))
        /\ pc' = "error"
        /\ err' = "OSError"
        /\ UNCHANGED pid
        /\ UNCHANGED searchVars
  /\ UNCHANGED <<windows, caller, stage, win_names_pref, workspace, new_name, new_win_name,
                 get_wid, old, ret>>
  /\ UNCHANGED run2

NextSeq ==
  \/ launch_by_title
  \/ launch_and_get_wid
  \/ PopenSeq
  \/ get_new_wid_poll
  \/ get_new_wid_return
  \/ rename_window
  \/ move_win_to_ws
  \/ WmCreateWindow

SpecSeq == Init /\ [][NextSeq]_vars

\* ------------------------------------------------------------ two runs
\* A second run of the program (another interpreter process) on the same
\* desktop.  It calls launch_and_move with the title strategy of terminal(),
\* like the first run's launch_by_title, and is started once the first run has
\* been started: while the first run is in progress, or after it has ended.

\* The variables of the first run.
run1Vars == <<pc, caller, stage, win_names_pref, workspace, new_name, new_win_name, get_wid,
              old, pid, old_wins, pattern, f_index, repeat, found, c, wid, wins, slept,
              outer, frame, ret, err, log>>

\* Process id Popen returns to the second run.
Run2Pids == {45}
\* new_name arguments of the second run.
Run2Names == SeqNames
\* The windows the second run's process maps.
Run2Kinds == {[pid |-> p, title |-> S_Terminal] : p \in Run2Pids}

\* The windows the first run's process maps.
Run1Kinds == {[pid |-> p, title |-> S_Terminal] : p \in SeqPids}

\* The process of either run maps a window, once it has been spawned and
\* while a search of either run still reads listings.
WmCreateWindowTwo ==
  /\ \/ pc = "get_new_wid" /\ ~found
     \/ run2.pc = "get_new_wid" /\ ~run2.found
  /\ Len(windows) < MaxWindows
  /\ \E kind \in Run1Kinds \cup Run2Kinds :
       /\ kind \in Run1Kinds => kind.pid = pid
       /\ kind \in Run2Kinds => kind.pid = run2.pid
       /\ windows' = Append(windows, [wid |-> Len(windows) + 1, pid |-> kind.pid,
                                      title |-> kind.title])
  /\ UNCHANGED run1Vars
  /\ UNCHANGED run2

\* Variant of the second run's launch_and_get_wid that starts from an empty baseline.
run2_launch_and_get_widNoBaseline ==
  /\ run2.pc = "idle"
  /\ pc # "idle"
  /\ \E name \in Run2Names :
       LET r == [run2 EXCEPT !.new_name = name, !.old = {},
                             !.overlap = pc \notin {"done", "error"}]
       IN \/ \E p \in Run2Pids : run2' = [r EXCEPT !.pc = "get_new_wid", !.pid = p]
          \/ run2' = [r EXCEPT !.pc = "error", !.err = "OSError"]
  /\ UNCHANGED run1Vars
  /\ UNCHANGED windows

\* Second run: launch_and_move is entered; launch_and_get_wid reads
\* old = get_wids(), spawns the program (Popen raises OSError when it cannot
\* be started) and calls get_wid(old, proc.pid).
run2_launch_and_get_wid ==
  /\ run2.pc = "idle"
  /\ pc # "idle"
  /\ \E name \in Run2Names :
       LET r == [run2 EXCEPT !.new_name = name, !.old = WidsOf(windows),
                             !.overlap = pc \notin {"done", "error"}]
       IN \/ \E p \in Run2Pids : run2' = [r EXCEPT !.pc = "get_new_wid", !.pid = p]
          \/ run2' = [r EXCEPT !.pc = "error", !.err = "OSError"]
  /\ UNCHANGED run1Vars
  /\ UNCHANGED windows

\* Second run: one iteration of the while loop of get_new_wid.
run2_get_new_wid_poll ==
  /\ run2.pc = "get_new_wid"
  /\ ~run2.found /\ run2.c < IterBound
  /\ LET a == get_wid_by_title(S_Terminal)
         r == scan(windows, run2.old, a.pattern, a.f_index, run2.wid, 0)
     IN run2' = [run2 EXCEPT !.c = run2.c + 1, !.found = r.found, !.wid = r.wid]
  /\ UNCHANGED run1Vars
  /\ UNCHANGED windows

\* Second run: the while loop has ended, `return wid`; launch_and_move then
\* renames the window when new_name is given and moves it.
run2_get_new_wid_return ==
  /\ run2.pc = "get_new_wid"
  /\ run2.found \/ run2.c >= IterBound
  /\ IF run2.wid = Unbound
     THEN /\ run2' = [run2 EXCEPT !.pc = "error", !.err = "UnboundLocalError"]
          /\ UNCHANGED windows
     ELSE /\ run2' = [run2 EXCEPT !.ret = run2.wid, !.pc = "done"]
          /\ windows' = IF run2.new_name # <<>>
                        THEN Retitle(windows, run2.wid, run2.new_name[1])
                        ELSE windows
  /\ UNCHANGED run1Vars

NextTwo ==
  \/ pc = "idle" /\ launch_by_title
  \/ launch_and_get_wid
  \/ PopenSeq
  \/ get_new_wid_poll
  \/ get_new_wid_return
  \/ rename_window
  \/ move_win_to_ws
  \/ WmCreateWindowTwo
  \/ run2_launch_and_get_wid
  \/ run2_get_new_wid_poll
  \/ run2_get_new_wid_return

SpecTwo == Init /\ [][NextTwo]_vars

\* =================================================================== claims
\* Rows of a listing that are outside `olds` and whose selected column contains `pat`.
NewMatches(listing, olds, pat, idx) ==
  {i \in 1..Len(listing) :
     /\ listing[i].wid \notin olds
     /\ StrIn(pat, Fields(listing[i])[idx + 1])}

FirstOf(S) == CHOOSE i \in S : \A j \in S : i <= j

\* Rows of a listing that are outside `olds` and do not match.
NewOthers(listing, olds, pat, idx) ==
  {i \in 1..Len(listing) : listing[i].wid \notin olds} \ NewMatches(listing, olds, pat, idx)

\* C1: title-based correlation (get_wid_by_title).  Whenever a listing read by
\* the search holds exactly one window outside the baseline whose first title
\* word contains the pattern, the search has found that window, and the handle
\* it returns is that window's, whatever other windows are listed.
C1_TitleCorrelationFindsTheWindow ==
  (frame = 1 /\ f_index = TITLE_INDEX /\ c > 0) =>
     \A i \in NewMatches(wins, old_wins, pattern, TITLE_INDEX) :
        Cardinality(NewMatches(wins, old_wins, pattern, TITLE_INDEX)) = 1 =>
           /\ found
           /\ wid = wins[i].wid
           /\ ret # Unbound => ret = wins[i].wid

\* C1 witness: a title search has returned the only new matching window, found
\* on a retry, with a baseline window and a new non-matching window listed too.
C1_Witness ==
  /\ frame = 1 /\ f_index = TITLE_INDEX /\ c > 1
  /\ pc = "rename_window"
  /\ Cardinality(NewMatches(wins, old_wins, pattern, TITLE_INDEX)) = 1
  /\ NewOthers(wins, old_wins, pattern, TITLE_INDEX) # {}
  /\ old_wins # {}
  /\ ret = wins[FirstOf(NewMatches(wins, old_wins, pattern, TITLE_INDEX))].wid

\* C2: a search that ends without a match returns no handle: a handle is
\* returned to launch_and_move only by a search that found a match.
C2_ExhaustedReturnsNoHandle == ret # Unbound => found

\* C3: with repeat=False, whenever a listing read by the search holds two or
\* more windows outside the baseline that match, the search has found the
\* first of them in the listing's order, and that is the handle it returns.
C3_FirstMatchWins ==
  (frame = 1 /\ ~repeat /\ c > 0
     /\ Cardinality(NewMatches(wins, old_wins, pattern, f_index)) >= 2) =>
        /\ found
        /\ wid = wins[FirstOf(NewMatches(wins, old_wins, pattern, f_index))].wid
        /\ ret # Unbound => ret = wid

\* C3 witness: a search with repeat=False has returned from a listing with two
\* matching windows outside the baseline.
C3_Witness ==
  /\ frame = 1 /\ found /\ ret # Unbound /\ ~repeat
  /\ Cardinality(NewMatches(wins, old_wins, pattern, f_index)) >= 2
  /\ ret = wins[FirstOf(NewMatches(wins, old_wins, pattern, f_index))].wid

SecondOf(S) == FirstOf(S \ {FirstOf(S)})

\* C4: with repeat=True (get_wid_by_pid(double=True), texstudio), when the
\* listing in which the first search found its match holds two matching windows
\* outside the baseline, w1 before w2, the handle returned is w2's.
C4_SkipFirstReturnsSecond ==
  (frame = 2 /\ ret # Unbound /\ outer.found
     /\ Cardinality(NewMatches(outer.wins, outer.old_wins, pattern, f_index)) >= 2) =>
        ret = outer.wins[SecondOf(NewMatches(outer.wins, outer.old_wins, pattern, f_index))].wid

\* Positions in the log of the wmctrl commands and of the handles returned.
MoveEvents == {i \in 1..Len(log) : log[i].op = "move_win_to_ws"}
RenameEvents == {i \in 1..Len(log) : log[i].op = "rename_window"}
ReturnEvents == {i \in 1..Len(log) : log[i].op = "return"}
ReturnBefore(i) == CHOOSE j \in ReturnEvents : j < i /\ \A k \in ReturnEvents : k < i => k <= j

\* C5 as stated: every move command targets the workspace number passed minus one.
C5_RelocateSubtractsOne ==
  \A i \in MoveEvents : log[i].arg = str(workspace - 1)

\* C5 as amended: move_win_to_ws passes the workspace number through
\* unchanged: every move command targets exactly the number the caller passed,
\* for the handle the correlation returned, and a finished launch_and_move has
\* issued exactly one move command.
C5_RelocatePassesNumberThrough ==
  /\ \A i \in MoveEvents :
        /\ log[i].arg = str(workspace)
        /\ \E j \in ReturnEvents : j < i
        /\ log[i].wid = log[ReturnBefore(i)].wid
  /\ (pc = "done" /\ caller # "jupyter_lab") => Cardinality(MoveEvents) = 1

\* C5 witness: a launch to workspace 4 has finished with its move command targeting "4".
C5_Witness ==
  /\ pc = "done" /\ workspace = 4
  /\ \E i \in MoveEvents : log[i].arg = <<"4">> /\ log[i].wid = ret

\* C6: when the search ends without a match, no rename and no move command
\* follows: the handle an exhausted search hands back is never used.
C6_ExhaustedAborts ==
  \A i \in ReturnEvents :
     ~log[i].ok => (i = Len(log) \/ log[i + 1].op \notin {"rename_window", "move_win_to_ws"})

\* The terminal() check applies to new_win_name while terminal() is the running profile.
InTerminal == caller = "terminal" \/ (caller = "jupyter_lab" /\ stage = 1)
FirstWordHasMarker(name) == split(name) # <<>> /\ StrIn(S_Terminal, split(name)[1])

\* C7 as stated: a title whose first word contains "Terminal" is rejected with
\* ValueError before anything is done, and every other non-empty title is accepted.
C7_RejectsMarkerAcceptsNonEmpty ==
  InTerminal =>
     /\ FirstWordHasMarker(new_win_name) =>
           (pc = "error" /\ err = "ValueError" /\ log = <<>>)
     /\ (new_win_name # <<>> /\ ~FirstWordHasMarker(new_win_name)) =>
           (err \notin {"ValueError", "IndexError"} /\ new_name = <<new_win_name>>)

\* C7 as amended: a title whose first word contains "Terminal" is rejected with
\* ValueError before anything is done (no listing read, no process started, no
\* wmctrl command); every other title that has at least one word is accepted;
\* a title without any word (only whitespace) ends in IndexError, also before
\* anything is done.
C7_RejectsMarkerAcceptsTitlesWithAWord ==
  InTerminal =>
     /\ FirstWordHasMarker(new_win_name) =>
           (pc = "error" /\ err = "ValueError" /\ log = <<>>)
     /\ (split(new_win_name) # <<>> /\ ~FirstWordHasMarker(new_win_name)) =>
           (err \notin {"ValueError", "IndexError"} /\ new_name = <<new_win_name>>)
     /\ split(new_win_name) = <<>> =>
           (pc = "error" /\ err = "IndexError" /\ log = <<>>)

\* C7 witness: terminal() has rejected "Terminal-session".
C7_Witness ==
  /\ caller = "terminal" /\ new_win_name = S_TerminalSession
  /\ pc = "error" /\ err = "ValueError" /\ log = <<>> /\ windows # <<>>

\* C8: a failed Popen ends the run at once: it is the last call of the run,
\* directly after the baseline get_wids(), so no listing is polled and no
\* rename or move command is issued by that launch.
C8_SpawnFailureBeforeCorrelation ==
  \A i \in 1..Len(log) :
     (log[i].op = "Popen" /\ ~log[i].ok) =>
        /\ i = Len(log)
        /\ i > 1 /\ log[i - 1].op = "get_wids"
        /\ pc = "error" /\ err = "OSError"

\* C8 witness: Popen has failed in a launch.
C8_Witness ==
  /\ pc = "error" /\ err = "OSError"
  /\ log[Len(log)].op = "Popen" /\ ~log[Len(log)].ok

\* The owner pid of the window with handle h in a listing.
OwnerPid(listing, h) == listing[CHOOSE i \in 1..Len(listing) : listing[i].wid = h].pid

\* C9: a handle get_wid_by_pid returns after a match is the handle of a window
\* whose owner process id equals the pid searched for.
C9_ReturnedWindowBelongsToPid ==
  (get_wid.by = "pid" /\ ret # Unbound /\ found) => OwnerPid(wins, ret) = pid

IsCommand(e) == e.op \in {"rename_window", "move_win_to_ws"}
Commands == SelectSeq(log, IsCommand)
IsReturn(e) == e.op = "return"
Returns == SelectSeq(log, IsReturn)

\* jupyter_lab(2, "/tmp", win_names_pref, 8890) has finished and both searches found a window.
JupyterLabDone ==
  /\ caller = "jupyter_lab" /\ pc = "done" /\ workspace = 2
  /\ Len(Returns) = 2 /\ Returns[1].ok /\ Returns[2].ok

\* C10 as stated: two move commands, both to index 1, one rename for the
\* terminal window and none for the browser window.
C10_JupyterLabAsStated ==
  JupyterLabDone =>
     Commands = << Event("rename_window", Returns[1].wid, win_names_pref \o S_JL, TRUE),
                   Event("move_win_to_ws", Returns[1].wid, <<"1">>, TRUE),
                   Event("move_win_to_ws", Returns[2].wid, <<"1">>, TRUE) >>

\* C10 as amended: exactly two move commands, both targeting index 2 (the
\* number passed), and exactly two rename commands: the terminal window is
\* renamed to "<pref>-JL" and the browser window to "<pref>-JL-Firefox".
C10_JupyterLabCommands ==
  JupyterLabDone =>
     /\ Commands = << Event("rename_window", Returns[1].wid, win_names_pref \o S_JL, TRUE),
                      Event("move_win_to_ws", Returns[1].wid, <<"2">>, TRUE),
                      Event("rename_window", Returns[2].wid,
                            win_names_pref \o S_JLFirefox, TRUE),
                      Event("move_win_to_ws", Returns[2].wid, <<"2">>, TRUE) >>
     /\ Returns[1].wid # Returns[2].wid

\* C10 witness: jupyter_lab has finished with both windows found.
C10_Witness == JupyterLabDone /\ Len(Commands) = 4 /\ win_names_pref = S_nb

\* C11: search with repeat=False (first frame).  In every state in which the
\* search has returned a handle, the handle is outside the baseline it was
\* given, and the row of that handle in the listing it was taken from is
\* outside the baseline with the pattern in its selected column.
C11_ReturnedHandleIsNewAndMatched ==
  (frame = 1 /\ ~repeat /\ ret # Unbound) =>
     /\ ret \notin old_wins
     /\ \E i \in NewMatches(wins, old_wins, pattern, f_index) : wins[i].wid = ret

\* The events of the search in progress or last ended: those after the last
\* Popen and not after the `return` that follows it.
LastPopen ==
  CHOOSE i \in 1..Len(log) :
    log[i].op = "Popen" /\ \A j \in (i + 1)..Len(log) : log[j].op # "Popen"

SearchEvents(op) ==
  {i \in (LastPopen + 1)..Len(log) :
     /\ log[i].op = op
     /\ \A j \in (LastPopen + 1)..(i - 1) : log[j].op # "return"}

\* C12: every search ends.  With repeat=False a search reads the listing at
\* most IterBound times (the bound the while loop puts on c, 1000 in the code)
\* and takes no other snapshot; with repeat=True the two searches together
\* read it at most twice IterBound times, plus the one get_wids() listing of
\* the second baseline.  Every listing read is counted by the loop counter c,
\* which never exceeds IterBound.
C12_SearchIsBounded ==
  (Launches > 0 /\ log[LastPopen].ok) =>
     /\ c <= IterBound /\ outer.c <= IterBound
     /\ Cardinality(SearchEvents("get_windows")) = c + (IF frame = 2 THEN outer.c ELSE 0)
     /\ get_wid # ByPid(TRUE) =>
          /\ Cardinality(SearchEvents("get_windows")) <= IterBound
          /\ SearchEvents("get_wids") = {}
     /\ get_wid = ByPid(TRUE) =>
          /\ Cardinality(SearchEvents("get_windows")) <= 2 * IterBound
          /\ Cardinality(SearchEvents("get_wids")) <= 1

\* C12 witness: a search with repeat=True has returned after both of its loops
\* ran out: twice IterBound listings and the one second baseline were read.
C12_Witness ==
  /\ get_wid = ByPid(TRUE) /\ ret # Unbound /\ frame = 2
  /\ ~outer.found /\ ~found
  /\ Cardinality(SearchEvents("get_windows")) = 2 * IterBound
  /\ Cardinality(SearchEvents("get_wids")) = 1

\* The op of the event before / after position i of the log ("" at the ends).
OpAt(i) == IF i \in 1..Len(log) THEN log[i].op ELSE ""

\* C13: launch_and_move does its steps in one order on one handle.  The
\* baseline get_wids() is the event right before the spawn; a successful spawn
\* is followed by the first listing of the search, and no listing of a search
\* is read before the spawn; the handle the search returns is renamed next if
\* and only if new_name was given, and then moved; the move follows the rename
\* (or the return when there is no rename) and ends the launch, so there is
\* exactly one move per launch that returned a handle; rename and move both
\* name the handle the search returned.
C13_FixedOrderOnOneHandle ==
  /\ \A i \in 1..Len(log) :
       LET e == log[i] IN
         /\ e.op = "Popen" => OpAt(i - 1) = "get_wids"
         /\ (e.op = "Popen" /\ e.ok) => (i < Len(log) => OpAt(i + 1) = "get_windows")
         /\ (e.op = "Popen" /\ ~e.ok) => i = Len(log)
         /\ e.op = "get_windows" =>
              \/ OpAt(i - 1) \in {"Popen", "get_windows"}
              \/ OpAt(i - 1) = "get_wids" /\ OpAt(i - 2) = "get_windows"
         /\ e.op = "return" =>
              /\ OpAt(i - 1) = "get_windows"
              /\ i < Len(log) =>
                   OpAt(i + 1) = (IF new_name # <<>> THEN "rename_window" ELSE "move_win_to_ws")
         /\ e.op = "rename_window" =>
              /\ OpAt(i - 1) = "return" /\ e.wid = log[i - 1].wid
              /\ i < Len(log) => OpAt(i + 1) = "move_win_to_ws"
         /\ e.op = "move_win_to_ws" =>
              /\ OpAt(i - 1) \in {"return", "rename_window"}
              /\ e.wid = log[i - 1].wid
              /\ e.wid = log[ReturnBefore(i)].wid
              /\ OpAt(i + 1) \in {"", "sleep"}
  /\ pc = "rename_window" => OpAt(Len(log)) = "return" /\ new_name # <<>>
  /\ pc = "move_win_to_ws" =>
       OpAt(Len(log)) = (IF new_name # <<>> THEN "rename_window" ELSE "return")
  /\ pc \in {"done", "jupyter_lab_sleep"} =>
       /\ OpAt(Len(log)) = "move_win_to_ws"
       /\ Cardinality(MoveEvents) = Cardinality(ReturnEvents)
       /\ Cardinality(RenameEvents) = (IF new_name # <<>> THEN Cardinality(ReturnEvents) ELSE 0)

\* C13 witness: a launch with a new name has ended after a search that needed
\* a retry: baseline, spawn, listings, return, rename and move are all logged.
C13_Witness ==
  /\ pc = "done" /\ new_name # <<>> /\ c > 1 /\ found
  /\ Cardinality(MoveEvents) = 1 /\ Cardinality(RenameEvents) = 1
  /\ \A i \in MoveEvents \cup RenameEvents : log[i].wid = ret

\* C14: polling cadence.  After every pass of the while loop that found no
\* candidate exactly one time.sleep(0.05) has been made, however many rows the
\* pass scanned (also when no row was outside the baseline), and a pass that
\* found its candidate made none: no sleep is made between two rows of a scan.
C14_OneSleepPerEmptyPass ==
  (pc = "get_new_wid" /\ c > 0) => slept = (IF found THEN 0 ELSE 1)

\* Matching windows mapped between the listing in which the first candidate
\* was found and the get_wids() of the recursion.
GapMatches ==
  {i \in NewMatches(windows, WidsOf(outer.wins), pattern, f_index) :
     windows[i].wid \in old_wins}

C16_SecondSearchOnlyAfterMatch == frame = 2 => outer.found

\* C17: with repeat=True the handle returned is never the handle of the first
\* candidate, the window the first loop found, however the second loop ended.
C17_NeverReturnsFirstCandidate ==
  (frame = 2 /\ outer.found /\ ret # Unbound) => ret # outer.wid

Run1Window(h) ==
  \E i \in 1..Len(windows) :
     windows[i].wid = h /\ pid # 0 /\ windows[i].pid = pid /\ h \notin old
Run2Window(h) ==
  \E i \in 1..Len(windows) :
     windows[i].wid = h /\ run2.pid # 0 /\ windows[i].pid = run2.pid /\ h \notin run2.old

\* A search that found a match has returned a window of the other run's process.
CrossMatch ==
  \/ found /\ ret # Unbound /\ Run2Window(ret)
  \/ run2.found /\ run2.ret # Unbound /\ Run1Window(run2.ret)

\* C19 as stated: when the second run is started after the first has ended, no
\* search returns a window mapped by the other run's process.
C19_NoCrossMatchWhenSequential == ~run2.overlap => ~CrossMatch

\* C19: two runs with the same title pattern.  When the second run is started
\* after the first has ended, the first run never returns a window of the
\* second run's process, the handle the first run returned is in the second
\* run's baseline, and a second search that found a match returns a handle
\* outside that baseline, so never the first run's handle.  (When the runs
\* overlap, each can return the window of the other's process: the witness.)
C19_SequentialRunsKeepApart ==
  (~run2.overlap /\ run2.pc # "idle") =>
     /\ ret # Unbound => ~Run2Window(ret)
     /\ ret # Unbound => ret \in run2.old
     /\ (run2.found /\ run2.ret # Unbound) =>
           /\ run2.ret \notin run2.old
           /\ run2.ret # ret

\* C19 witness: the runs overlapped, both searches found a match, and each run
\* has returned the window mapped by the other run's process.
C19_Witness ==
  /\ run2.overlap
  /\ found /\ ret # Unbound /\ Run2Window(ret)
  /\ run2.found /\ run2.ret # Unbound /\ Run1Window(run2.ret)

====
